---------------------------- MODULE Spec2Model ----------------------------
(***************************************************************************)
(* N-dimensional Needleman-Wunsch (nw.py) and Smith-Waterman (sw.py)       *)
(* alignment engines.  One engine instance is modelled: its fields         *)
(* (sequences, config, matrix, counter, bestscore, bestcoordinate), the    *)
(* position of the caller inside solve(), and the outcome of the last      *)
(* solve() and __str__() calls.  A Python exception is modelled as the     *)
(* outcome that names it.                                                  *)
(*                                                                         *)
(* Sequences are 1-based here: Python's sequences[v][u-1] is               *)
(* sequences[v][u].  The helper methods increase, generatebasepairs,       *)
(* generatemoves, generatecoordinates, getallpairs, scorePair,             *)
(* retrievematrixelement, enterelement and initializeMatrix have the same   *)
(* code in nw.py and sw.py (only docstrings differ) and are modelled once. *)
(* writes is a history variable: how often each matrix slot was assigned.  *)
(* NW has no bestscore and bestcoordinate fields; for an NW engine the two *)
(* variables keep their initial values and are never read.                 *)
(***************************************************************************)
EXTENDS Integers, Sequences, FiniteSets, TLC

VARIABLES alg, sequences, config, matrix, counter, bestscore, bestcoordinate,
          pc, calls, outcome, out, writes

vars == <<alg, sequences, config, matrix, counter, bestscore, bestcoordinate,
          pc, calls, outcome, out, writes>>

----------------------------------------------------------------------------
(* Bounds of the model *)

\* longest sequence when two sequences are aligned
MaxLen == 2

\* longest sequence when three sequences are aligned
MaxLen3 == 1

\* number of solve() calls that may return on one engine
MaxCalls == 2

Alphabet == {"A", "C"}

----------------------------------------------------------------------------
(* Config (config.py) *)

DefaultMatch == 5

DefaultMismatch == -2

DefaultGap == -4

DefaultTwogaps == 0

Config(match, mismatch, gap, twogaps) ==
    [match |-> match, mismatch |-> mismatch, gap |-> gap, twogaps |-> twogaps]

\* the configurations an engine is constructed with: the default one, and one
\* with a non-zero twogaps weight in which a match and a gap cancel
Configs ==
    { Config(DefaultMatch, DefaultMismatch, DefaultGap, DefaultTwogaps),
      Config(2, -1, -2, 1) }

----------------------------------------------------------------------------
(* Python values *)

\* Python's None where a coordinate is expected (coordinates have N >= 2
\* components, so the empty tuple is no coordinate)
None == <<>>

\* a matrix slot still holding the None of initializeMatrix
NoneSlot == [isNone |-> TRUE, coordinate |-> None, score |-> 0]

\* Score(coordinate, score): the third field, move, is never passed and stays
\* None in every object, so it is not carried
Score(coordinate, score) ==
    [isNone |-> FALSE, coordinate |-> coordinate, score |-> score]

Ok(v) == [err |-> "none", val |-> v]

Raise(e) == [err |-> e, val |-> <<>>]

----------------------------------------------------------------------------
(* The lattice *)

N == Len(sequences)

Dims == 1..N

Zero == [v \in Dims |-> 0]

FarCorner == [v \in Dims |-> Len(sequences[v])]

\* the length of the longest of seqs
Longest(seqs) ==
    CHOOSE n \in {Len(seqs[v]) : v \in 1..Len(seqs)} :
        \A v \in 1..Len(seqs) : Len(seqs[v]) <= n

\* the coordinates of the matrix initializeMatrix builds: one slot per
\* combination of 0..len(seq) in every dimension
LatticeOf(seqs) ==
    { c \in [1..Len(seqs) -> 0..Longest(seqs)] :
        \A v \in 1..Len(seqs) : c[v] <= Len(seqs[v]) }

Lattice == LatticeOf(sequences)

initializeMatrix(seqs) == [c \in LatticeOf(seqs) |-> NoneSlot]

enterelement(m, coordinate, value) == [m EXCEPT ![coordinate] = value]

retrievematrixelement(m, coord) == m[coord]

----------------------------------------------------------------------------
(* The traversal counter *)

InitCounter(seqs) == [v \in 1..Len(seqs) |-> IF v = 1 THEN 1 ELSE 0]

\* an increase whose last dimension overflows to 0 like the others
increaseWrap(c) ==
    LET RECURSIVE wrap(_, _)
        wrap(d, x) ==
            IF x > N THEN d
            ELSE IF d[x] = Len(sequences[x]) + 1
                 THEN wrap([d EXCEPT ![x] = 0,
                                     ![IF x < N THEN x + 1 ELSE x] =
                                         IF x < N THEN d[x + 1] + 1 ELSE 0],
                           x + 1)
                 ELSE wrap(d, x + 1)
    IN  wrap([c EXCEPT ![1] = c[1] + 1], 1)

\* an increase that resets an overflowing dimension to 1 instead of 0
increaseResetOne(c) ==
    LET RECURSIVE skip(_, _)
        skip(d, x) ==
            IF x > N - 1 THEN d
            ELSE IF d[x] = Len(sequences[x]) + 1
                 THEN skip([d EXCEPT ![x] = 1, ![x + 1] = d[x + 1] + 1], x + 1)
                 ELSE skip(d, x + 1)
    IN  skip([c EXCEPT ![1] = c[1] + 1], 1)

RECURSIVE carry(_, _)
carry(c, x) ==
    IF x > N - 1 THEN c
    ELSE IF c[x] = Len(sequences[x]) + 1
         THEN carry([c EXCEPT ![x] = 0, ![x + 1] = c[x + 1] + 1], x + 1)
         ELSE carry(c, x + 1)

increase(c) == carry([c EXCEPT ![1] = c[1] + 1], 1)

\* the guard of solve()'s while loop
LoopCond(c) == c[N] # Len(sequences[N]) + 1

\* a solve() that starts the traversal over on every call
solveEntryReset(c) == InitCounter(sequences)

\* solve() starts its loop from the counter the instance holds
solveEntry(c) == c

----------------------------------------------------------------------------
(* Moves *)

generatebasepairs(x) ==
    IF \E v \in Dims : x[v] > Len(sequences[v])
    THEN Raise("IndexError")
    ELSE Ok([v \in Dims |-> IF x[v] = 0 THEN "_" ELSE sequences[v][x[v]]])

AllGaps(n) == [v \in 1..n |-> "_"]

\* list.remove: the list without the first occurrence of e
RECURSIVE RemoveFirst(_, _)
RemoveFirst(s, e) ==
    IF s = <<>> THEN <<>>
    ELSE IF Head(s) = e THEN Tail(s)
         ELSE <<Head(s)>> \o RemoveFirst(Tail(s), e)

RECURSIVE movesUpTo(_, _)
movesUpTo(x, u) ==
    IF u = 1
    THEN IF x[1] # "_" THEN << <<x[1]>>, <<"_">> >> ELSE << <<x[1]>> >>
    ELSE LET rv == movesUpTo(x, u - 1) IN
         IF x[u] = "_"
         THEN [k \in 1..Len(rv) |-> Append(rv[k], "_")]
         ELSE [k \in 1..Len(rv) |-> Append(rv[k], x[u])]
              \o [k \in 1..Len(rv) |-> Append(rv[k], "_")]

generatemoves(x) == RemoveFirst(movesUpTo(x, Len(x)), AllGaps(Len(x)))

generatecoordinates(x, y) ==
    [v \in 1..Len(x) |-> IF x[v] = "_" THEN y[v] ELSE y[v] - 1]

RECURSIVE pairsFrom(_, _)
pairsFrom(x, u) ==
    IF u > Len(x) - 1 THEN <<>>
    ELSE [k \in 1..(Len(x) - u) |-> <<x[u], x[u + k]>>] \o pairsFrom(x, u + 1)

getallpairs(x) == pairsFrom(x, 1)

\* a scorePair without the test for equal symbols
scorePairNoMatch(x) ==
    IF x[1] = "_" /\ x[2] = "_" THEN config.twogaps
    ELSE IF x[1] = "_" \/ x[2] = "_" THEN config.gap
    ELSE config.mismatch

scorePair(x) ==
    IF x[1] = "_" /\ x[2] = "_" THEN config.twogaps
    ELSE IF x[1] = "_" \/ x[2] = "_" THEN config.gap
    ELSE IF x[1] = x[2] THEN config.match
    ELSE config.mismatch

RECURSIVE sum(_)
sum(s) == IF s = <<>> THEN 0 ELSE Head(s) + sum(Tail(s))

\* sum([scorePair(u) for u in getallpairs(move)])
moveScore(move) ==
    LET pairs == getallpairs(move)
    IN  sum([k \in 1..Len(pairs) |-> scorePair(pairs[k])])

----------------------------------------------------------------------------
(* solve(): one iteration of the while loop *)

\* the sentinel solve() of nw.py starts maxscore from
MinusInfinity == -100000000

\* nw.py: if newscore > maxscore
nwBetter(newscore, maxscore) == newscore > maxscore

\* a move that only equals the floor is taken
swBetterOrEqual(newscore, maxscore) == newscore >= maxscore

\* sw.py: if newscore > maxscore
swBetter(newscore, maxscore) == newscore > maxscore

\* a tie replaces the recorded best pair
swImprovesOrTies(newscore, best) == newscore >= best

\* sw.py: if newscore > self.bestscore
swImproves(newscore, best) == newscore > best

\* nw.py, the for loop over moves from move k on; acc holds maxscore and
\* bestmove.  Reading .score of a slot that is still None raises
\* AttributeError.
RECURSIVE nwMoves(_, _, _)
nwMoves(moves, k, acc) ==
    IF k > Len(moves) THEN acc
    ELSE LET coordinates == generatecoordinates(moves[k], counter)
             cell == retrievematrixelement(matrix, coordinates)
         IN  IF cell.isNone THEN [acc EXCEPT !.err = "AttributeError"]
             ELSE LET newscore == cell.score + moveScore(moves[k])
                  IN  nwMoves(moves, k + 1,
                              IF nwBetter(newscore, acc.maxscore)
                              THEN [acc EXCEPT !.maxscore = newscore,
                                               !.bestmove = coordinates]
                              ELSE acc)

\* sw.py, the for loop over moves from move k on; acc also holds the
\* instance's bestscore and bestcoordinate, which the loop assigns
RECURSIVE swMoves(_, _, _)
swMoves(moves, k, acc) ==
    IF k > Len(moves) THEN acc
    ELSE LET coordinates == generatecoordinates(moves[k], counter)
             cell == retrievematrixelement(matrix, coordinates)
         IN  IF cell.isNone THEN [acc EXCEPT !.err = "AttributeError"]
             ELSE LET newscore == cell.score + moveScore(moves[k])
                      acc1 == IF swBetter(newscore, acc.maxscore)
                              THEN [acc EXCEPT !.maxscore = newscore,
                                               !.bestmove = coordinates]
                              ELSE acc
                      acc2 == IF swImproves(newscore, acc1.bestscore)
                              THEN [acc1 EXCEPT !.bestscore = newscore,
                                                !.bestcoordinate = counter]
                              ELSE acc1
                  IN  swMoves(moves, k + 1, acc2)

----------------------------------------------------------------------------
(* __str__ *)

\* no __str__ call yet
NoOut == [kind |-> "none", score |-> 0, lines |-> <<>>, flanks |-> <<>>]

Failure(e) == [kind |-> e, score |-> 0, lines |-> <<>>, flanks |-> <<>>]

\* the string "The matrix has not been solved yet. ..."
NotSolved == [kind |-> "NotSolved", score |-> 0, lines |-> <<>>, flanks |-> <<>>]

\* an emit that indexes the sequence one position too low (index -1 is
\* Python's last element)
emitShifted(v, origin, destination) ==
    IF origin[v] = destination[v] THEN "."
    ELSE sequences[v][IF destination[v] = 1 THEN Len(sequences[v])
                      ELSE destination[v] - 1]

\* the character appended to resultstrings[v] for the step origin -> destination
emit(v, origin, destination) ==
    IF origin[v] = destination[v] THEN "." ELSE sequences[v][destination[v]]

\* resultstrings after the loop over range(1, len(result))
resultstrings(result) ==
    [v \in Dims |->
        [u \in 1..(Len(result) - 1) |-> emit(v, result[u], result[u + 1])]]

\* nw.py: while currentorigin != [0]*N: result.insert(0, ...coordinate)
RECURSIVE nwTrace(_, _)
nwTrace(currentorigin, result) ==
    IF currentorigin = Zero THEN Ok(result)
    ELSE IF currentorigin = None THEN Raise("TypeError")
    ELSE IF retrievematrixelement(matrix, currentorigin).isNone
         THEN Raise("AttributeError")
    ELSE LET p == retrievematrixelement(matrix, currentorigin).coordinate
         IN  nwTrace(p, <<p>> \o result)

\* NW.__str__: the score is read from the far corner before the test for None
nwStr ==
    LET origin == FarCorner IN
    IF retrievematrixelement(matrix, origin).isNone
    THEN Failure("AttributeError")
    ELSE LET t == nwTrace(origin, <<>>) IN
         IF t.err # "none" THEN Failure(t.err)
         ELSE [kind |-> "report",
               score |-> retrievematrixelement(matrix, origin).score,
               lines |-> resultstrings(Append(t.val, origin)),
               flanks |-> <<>>]

\* sw.py: the while loop of __str__; the value is result and currentorigin
RECURSIVE swTrace(_, _)
swTrace(currentorigin, result) ==
    IF currentorigin = Zero \/ currentorigin = None
    THEN [err |-> "none", result |-> result, currentorigin |-> currentorigin]
    ELSE IF retrievematrixelement(matrix, currentorigin).isNone
         THEN [err |-> "AttributeError", result |-> result,
               currentorigin |-> currentorigin]
    ELSE LET nextorigin == retrievematrixelement(matrix, currentorigin).coordinate
         IN  IF nextorigin = None
             THEN [err |-> "none", result |-> result,
                   currentorigin |-> currentorigin]
             ELSE swTrace(nextorigin, <<nextorigin>> \o result)

\* max(currentorigin)
maxOf(c) == CHOOSE n \in {c[v] : v \in DOMAIN c} : \A v \in DOMAIN c : c[v] <= n

\* SW.__str__.  origin is assigned only in the loop over range(1, len(result)):
\* with a one-element result the final comprehension reads an unbound local.
swStr ==
    LET originn == FarCorner IN
    IF retrievematrixelement(matrix, originn).isNone THEN NotSolved
    ELSE LET t == swTrace(bestcoordinate, <<bestcoordinate>>) IN
         IF t.err # "none" THEN Failure(t.err)
         ELSE IF Len(t.result) = 1 THEN Failure("UnboundLocalError")
         ELSE LET origin == t.result[Len(t.result) - 1]
                  x == t.currentorigin
              IN  [kind |-> "report",
                   score |-> bestscore,
                   lines |-> resultstrings(t.result),
                   flanks |-> [v \in Dims |->
                       [pad |-> maxOf(x) - x[v],
                        left |-> SubSeq(sequences[v], 1, x[v]),
                        right |-> SubSeq(sequences[v], origin[v] + 2,
                                         Len(sequences[v]))]]]

----------------------------------------------------------------------------
(* The engine *)

SeqsUpTo(n) == UNION {[1..k -> Alphabet] : k \in 0..n}

\* the lists of sequences an engine is constructed from
Inputs == [1..2 -> SeqsUpTo(MaxLen)] \cup [1..3 -> SeqsUpTo(MaxLen3)]

Init ==
    /\ alg \in {"NW", "SW"}
    /\ sequences \in Inputs
    /\ config \in Configs
    /\ matrix = enterelement(initializeMatrix(sequences), Zero, Score(Zero, 0))
    /\ counter = InitCounter(sequences)
    /\ bestscore = 0
    /\ bestcoordinate = Zero
    /\ pc = "idle"
    /\ calls = 0
    /\ outcome = "none"
    /\ out = [res |-> NoOut, calls |-> 0]
    /\ writes = [c \in Lattice |-> IF c = Zero THEN 1 ELSE 0]

\* solve() is called
SolveCall ==
    /\ pc = "idle"
    /\ calls < MaxCalls
    /\ pc' = "solving"
    /\ counter' = solveEntry(counter)
    /\ outcome' = "none"
    /\ UNCHANGED <<alg, sequences, config, matrix, bestscore, bestcoordinate,
                   calls, out, writes>>

\* an exception leaves solve()
Raised(e) ==
    /\ pc' = "idle"
    /\ outcome' = e
    /\ UNCHANGED <<alg, sequences, config, matrix, counter, calls, out, writes>>

NWSolveStep ==
    /\ pc = "solving"
    /\ alg = "NW"
    /\ LoopCond(counter)
    /\ LET basepair == generatebasepairs(counter) IN
       IF basepair.err # "none"
       THEN Raised(basepair.err) /\ UNCHANGED <<bestscore, bestcoordinate>>
       ELSE LET r == nwMoves(generatemoves(basepair.val), 1,
                             [err |-> "none", maxscore |-> MinusInfinity,
                              bestmove |-> None])
            IN  IF r.err # "none"
                THEN Raised(r.err) /\ UNCHANGED <<bestscore, bestcoordinate>>
                ELSE /\ matrix' = enterelement(matrix, counter,
                                               Score(r.bestmove, r.maxscore))
                     /\ writes' = [writes EXCEPT ![counter] = @ + 1]
                     /\ counter' = increase(counter)
                     /\ UNCHANGED <<alg, sequences, config, bestscore,
                                    bestcoordinate, pc, calls, outcome, out>>

SWSolveStep ==
    /\ pc = "solving"
    /\ alg = "SW"
    /\ LoopCond(counter)
    /\ LET basepair == generatebasepairs(counter) IN
       IF basepair.err # "none"
       THEN Raised(basepair.err) /\ UNCHANGED <<bestscore, bestcoordinate>>
       ELSE LET r == swMoves(generatemoves(basepair.val), 1,
                             [err |-> "none", maxscore |-> 0, bestmove |-> None,
                              bestscore |-> bestscore,
                              bestcoordinate |-> bestcoordinate])
            IN  /\ bestscore' = r.bestscore
                /\ bestcoordinate' = r.bestcoordinate
                /\ IF r.err # "none"
                   THEN Raised(r.err)
                   ELSE /\ matrix' = enterelement(matrix, counter,
                                                  Score(r.bestmove, r.maxscore))
                        /\ writes' = [writes EXCEPT ![counter] = @ + 1]
                        /\ counter' = increase(counter)
                        /\ UNCHANGED <<alg, sequences, config, pc, calls,
                                       outcome, out>>

\* the while loop ends and solve() returns
SolveReturn ==
    /\ pc = "solving"
    /\ ~LoopCond(counter)
    /\ pc' = "idle"
    /\ calls' = calls + 1
    /\ outcome' = "returned"
    /\ UNCHANGED <<alg, sequences, config, matrix, counter, bestscore,
                   bestcoordinate, out, writes>>

NWStr ==
    /\ pc = "idle"
    /\ alg = "NW"
    /\ out' = [res |-> nwStr, calls |-> calls]
    /\ UNCHANGED <<alg, sequences, config, matrix, counter, bestscore,
                   bestcoordinate, pc, calls, outcome, writes>>

SWStr ==
    /\ pc = "idle"
    /\ alg = "SW"
    /\ out' = [res |-> swStr, calls |-> calls]
    /\ UNCHANGED <<alg, sequences, config, matrix, counter, bestscore,
                   bestcoordinate, pc, calls, outcome, writes>>

Next ==
    \/ SolveCall
    \/ NWSolveStep
    \/ SWSolveStep
    \/ SolveReturn
    \/ NWStr
    \/ SWStr

Spec == Init /\ [][Next]_vars

----------------------------------------------------------------------------
(* Reference definitions used by the properties below.  They are stated    *)
(* from the definitions of alignment and odometer order, not from the      *)
(* engine's helpers.                                                       *)

\* a solve() call has returned
Solved == calls >= 1

\* the last __str__ call was made after a solve() call had returned
Reported == out.res.kind # "none" /\ out.calls >= 1

\* the score of one alignment column: every unordered pair of its entries
\* counted once
RefColumnScore(col) ==
    LET P == {p \in (DOMAIN col) \X (DOMAIN col) : p[1] < p[2]}
        two == {p \in P : col[p[1]] = "_" /\ col[p[2]] = "_"}
        one == {p \in P \ two : col[p[1]] = "_" \/ col[p[2]] = "_"}
        same == {p \in P \ (two \cup one) : col[p[1]] = col[p[2]]}
        diff == P \ (two \cup one \cup same)
    IN  Cardinality(two) * config.twogaps + Cardinality(one) * config.gap
        + Cardinality(same) * config.match + Cardinality(diff) * config.mismatch

\* the column in which exactly the sequences of S consume their next symbol
\* after c symbols of each have been consumed
ColumnAfter(c, S) ==
    [v \in Dims |-> IF v \in S THEN sequences[v][c[v] + 1] ELSE "_"]

\* the coordinate after the sequences of S have each consumed one symbol at c
Advance(c, S) == [v \in Dims |-> IF v \in S THEN c[v] + 1 ELSE c[v]]

\* the sets of sequences that may consume in the column after c: the
\* non-empty sets of sequences with a symbol left
Consumers(c) == (SUBSET {v \in Dims : c[v] < Len(sequences[v])}) \ {{}}

\* the number of alignments of the suffixes left after c: the sequences of
\* non-empty columns that consume all of them
RECURSIVE CountAlignmentsFrom(_)
CountAlignmentsFrom(c) ==
    IF c = FarCorner THEN 1
    ELSE LET RECURSIVE total(_)
             total(Ss) ==
                 IF Ss = {} THEN 0
                 ELSE LET S == CHOOSE S \in Ss : TRUE
                      IN  CountAlignmentsFrom(Advance(c, S)) + total(Ss \ {S})
         IN  total(Consumers(c))

\* the best score of an alignment of the suffixes left after c, by
\* exhaustive search over the first column and the rest
RECURSIVE BestAlignmentFrom(_)
BestAlignmentFrom(c) ==
    IF c = FarCorner THEN 0
    ELSE LET scores == { RefColumnScore(ColumnAfter(c, S))
                           + BestAlignmentFrom(Advance(c, S)) : S \in Consumers(c) }
         IN  CHOOSE m \in scores : \A n \in scores : n <= m

OptimalGlobalScore == BestAlignmentFrom(Zero)

\* a comes before b in odometer order (dimension 1 varies fastest, so the
\* highest dimension in which they differ decides)
OdoBefore(a, b) ==
    \E v \in Dims : a[v] < b[v] /\ \A w \in Dims : w > v => a[w] = b[w]

\* the candidate scores of the moves into c: for every non-empty set S of
\* dimensions that consume, the predecessor's score plus the column's score
Candidates(c) ==
    { matrix[[v \in Dims |-> IF v \in S THEN c[v] - 1 ELSE c[v]]].score
        + RefColumnScore([v \in Dims |->
                            IF v \in S THEN sequences[v][c[v]] ELSE "_"]) :
      S \in (SUBSET {v \in Dims : c[v] > 0}) \ {{}} }

\* an aligned string without its gap markers
Strip(line) == SelectSeq(line, LAMBDA ch : ch # ".")

Filled(c) == ~matrix[c].isNone

----------------------------------------------------------------------------
(* Properties *)

\* C1: after NW.solve() has completed, the score stored in the far-corner
\* cell equals the optimal global alignment score found by brute force: the
\* maximum, over every sequence of admissible columns consuming all sequences
\* end to end, of the sum of the columns' pairwise scores.
C1_GlobalScoreIsOptimal ==
    (alg = "NW" /\ Solved) =>
        /\ Filled(FarCorner)
        /\ matrix[FarCorner].score = OptimalGlobalScore

\* two different sequences of length 2 have been aligned globally (13
\* alignments to choose from)
C1_Witness ==
    /\ alg = "NW" /\ Solved /\ N = 2
    /\ Len(sequences[1]) = 2 /\ Len(sequences[2]) = 2
    /\ sequences[1] # sequences[2]
    /\ CountAlignmentsFrom(Zero) = 13
    /\ matrix[FarCorner].score = OptimalGlobalScore

\* C2: a report NW.__str__ builds after solve() walks the predecessors from
\* the far corner to the all-zero coordinate, and every sequence's aligned
\* string with the gap markers removed is that sequence.
C2_StripReproducesSequence ==
    (alg = "NW" /\ Reported) =>
        /\ out.res.kind = "report"
        /\ nwTrace(FarCorner, <<>>).err = "none"
        /\ Head(Append(nwTrace(FarCorner, <<>>).val, FarCorner)) = Zero
        /\ \A v \in Dims : Strip(out.res.lines[v]) = sequences[v]

\* a global report in which some aligned string holds a gap marker and some
\* sequence has two symbols
C2_Witness ==
    /\ alg = "NW" /\ Reported /\ out.res.kind = "report"
    /\ \E v \in Dims : \E u \in DOMAIN out.res.lines[v] : out.res.lines[v][u] = "."
    /\ \E v \in Dims : Len(sequences[v]) >= 2 /\ Strip(out.res.lines[v]) = sequences[v]

\* C3: after SW.solve() has completed, bestscore is the maximum score over
\* all cells and the score of the cell at bestcoordinate, and bestcoordinate
\* is the first coordinate in odometer order whose cell holds that maximum.
C3_BestIsFirstMaximum ==
    (alg = "SW" /\ Solved) =>
        /\ \A c \in Lattice : Filled(c) /\ matrix[c].score <= bestscore
        /\ bestcoordinate \in Lattice
        /\ matrix[bestcoordinate].score = bestscore
        /\ \A c \in Lattice :
              matrix[c].score = bestscore =>
                  c = bestcoordinate \/ OdoBefore(bestcoordinate, c)

\* a solved local matrix in which two cells hold the positive maximum
C3_Witness ==
    /\ alg = "SW" /\ Solved /\ bestscore > 0
    /\ \E c \in Lattice : c # bestcoordinate /\ matrix[c].score = bestscore

\* C4: in every state of an SW engine every filled cell has score >= 0, and
\* a filled non-origin cell has predecessor none exactly when none of its
\* moves has a candidate score greater than 0, and then its score is 0.
C4_LocalFloor ==
    alg = "SW" =>
        \A c \in Lattice :
            Filled(c) =>
                /\ matrix[c].score >= 0
                /\ c # Zero =>
                      /\ (matrix[c].coordinate = None)
                            <=> (\A s \in Candidates(c) : s <= 0)
                      /\ matrix[c].coordinate = None => matrix[c].score = 0

\* during solve(), a cell whose best candidate is exactly 0 has been stored
\* without predecessor, and another cell has one
C4_Witness ==
    /\ alg = "SW" /\ pc = "solving"
    /\ \E c \in Lattice \ {Zero} :
          /\ Filled(c) /\ matrix[c].coordinate = None
          /\ 0 \in Candidates(c)
    /\ \E c \in Lattice \ {Zero} : Filled(c) /\ matrix[c].coordinate # None

\* C5: for two non-empty sequences with no symbol in common (match > 0, mismatch < 0,
\* gap < 0), after SW.solve() the best score is 0 and the report of
\* SW.__str__ shows an empty aligned region for every sequence.
C5_NoCommonSymbolReport ==
    ( /\ alg = "SW" /\ N = 2 /\ Reported
      /\ sequences[1] # <<>> /\ sequences[2] # <<>>
      /\ \A i \in DOMAIN sequences[1] : \A j \in DOMAIN sequences[2] :
            sequences[1][i] # sequences[2][j]
      /\ config.match > 0 /\ config.mismatch < 0 /\ config.gap < 0 ) =>
        /\ bestscore = 0
        /\ out.res.kind = "report"
        /\ \A v \in Dims : out.res.lines[v] = <<>>

\* C6: once a solve() call has returned, no later step (a second solve()
\* among them) changes the matrix, the counter, bestscore or bestcoordinate,
\* and a result reported again is the result reported before.
C6_SecondSolveChangesNothing ==
    [][Solved =>
          /\ matrix' = matrix
          /\ counter' = counter
          /\ bestscore' = bestscore
          /\ bestcoordinate' = bestcoordinate
          /\ Reported => out'.res = out.res]_vars

\* a second solve() call has returned and the result has been reported after it
C6_Witness ==
    /\ calls = 2 /\ pc = "idle" /\ out.calls = 2
    /\ out.res.kind = "report"

\* C7: a zero-length sequence at any position is no error: solve() does not
\* fail, that dimension's coordinate is 0 at every visited coordinate, every
\* stored move has a gap for that sequence, and once solve() has returned
\* every coordinate of the lattice is filled.
C7_EmptySequenceIsNoError ==
    \A v \in Dims :
        sequences[v] = <<>> =>
            /\ outcome \notin {"IndexError", "AttributeError"}
            /\ (pc = "solving" /\ LoopCond(counter)) => counter[v] = 0
            /\ \A c \in Lattice \ {Zero} :
                  (Filled(c) /\ matrix[c].coordinate # None) =>
                      matrix[c].coordinate[v] = c[v]
            /\ Solved => \A c \in Lattice : Filled(c)

\* C8: __str__ on an engine no solve() call of which has returned gives the
\* not-solved result, whenever the far corner is not the origin.
C8_NotSolvedResult ==
    (out.res.kind # "none" /\ out.calls = 0 /\ FarCorner # Zero) =>
        out.res.kind = "NotSolved"

=============================================================================
